---- MODULE Spec2Model ----
(***************************************************************************)
(* Serial task-graph executor (serial/main.cc): SerialApp's constructor    *)
(* and destructor, execute_main_loop, execute_timestep, task1 and task2.   *)
(*                                                                         *)
(* The Graph collaborator (core.h) is outside serial/main.cc: its fields   *)
(* are fixed when the run starts, and each call of offset_at_timestep,     *)
(* width_at_timestep and dependencies returns some value of a bounded set. *)
(* malloc may return NULL at any allocation site.                          *)
(***************************************************************************)
EXTENDS Integers, Sequences, FiniteSets, TLC

\* ---- bounds of the model ------------------------------------------------
MaxGraphs == 2
MaxFields == 2
MaxWidth == 2
MaxSteps == 2
MaxDeps == 2
MaxScratch == 1
MaxAllocFailures == 1

\* ---- the Graph collaborator's value sets --------------------------------
GraphFields ==
  [nb_fields : 0..MaxFields, max_width : 1..MaxWidth,
   timesteps : 1..MaxSteps, scratch_bytes_per_task : 0..MaxScratch]

RECURSIVE TotalSteps(_, _)
TotalSteps(gs, n) ==
  IF n = 0 THEN 0 ELSE TotalSteps(gs, n - 1) + gs[n].timesteps

\* the lists of n graphs that have at most MaxSteps timesteps in all
RECURSIVE ListsOf(_)
ListsOf(n) ==
  IF n = 0 THEN {<<>>}
  ELSE UNION {{Append(gs, g) :
                 g \in {f \in GraphFields :
                          TotalSteps(gs, Len(gs)) + f.timesteps <= MaxSteps}} :
              gs \in ListsOf(n - 1)}

\* the runs modelled: up to MaxGraphs graphs, MaxSteps timesteps in all
GraphLists == UNION {ListsOf(n) : n \in 1..MaxGraphs}

\* offset_at_timestep / width_at_timestep of a graph of max_width N: the
\* range may start below 0 and end beyond max_width (all columns are far
\* inside the range of int, the type of the loop variable x)
Offsets(N) == -1..(N - 1)
Widths(N) == 0..N

\* dependencies(dset, x) of a graph of max_width N: up to MaxDeps source
\* columns, each possibly negative or >= max_width
DepLists(N) == UNION {[1..n -> -1..N] : n \in 0..MaxDeps}

VARIABLES
  graphs,          \* App::graphs, the fields of every TaskGraph
  pc,              \* position of the single thread
  failed,          \* the allocation sites whose malloc returned NULL
  matrix_null,     \* SerialApp::matrix == NULL
  data_null,       \* data_null[g]: matrix[g].data == NULL
  buff_null,       \* the <<g, j>> with matrix[g].data[j].output_buff == NULL
  content,         \* content[g][j]: timestep of the latest execute_point call
                   \* given tile j of graph g as its output buffer, -1 if none
  scratch_memory,  \* the global scratch pointer: "NULL" or "buf"
  scratch_size,    \* bytes allocated for scratch_memory
  prepare_calls,   \* calls of TaskGraph::prepare_scratch so far
  idx, t,          \* execute_main_loop's i and y = execute_timestep's idx and t
  ran,             \* ran[g]: number of execute_timestep(g, _) calls so far
  offset, width,   \* execute_timestep's locals
  x,               \* the column loop variable
  deps,            \* g.dependencies(dset, x) of the current point
  k,               \* the gather loop's i (1-based)
  inputs,          \* the gather loop's inputs vector (flat tile indices)
  visited,         \* columns the loop body ran for in the current timestep
  outcome,         \* <<[x, deps, inputs, path]>> when the last step ended the
                   \* loop body of column x, else <<>>
  call,            \* <<the execute_point call made by the last step>>, or <<>>
  last,            \* <<g, t, x>> of the latest execute_point call, or <<>>
  calls,           \* number of execute_point calls so far
  points,          \* number of loop bodies that got past the check of line 211
  freed,           \* the pointers handed to free so far
  timer            \* sequence of Timer / report_timing events so far

vars ==
  <<graphs, pc, failed, matrix_null, data_null, buff_null, content,
    scratch_memory, scratch_size, prepare_calls, idx, t, ran, offset, width,
    x, deps, k, inputs,
    visited, outcome, call, last, calls, points, freed, timer>>

\* ---- helpers ------------------------------------------------------------
\* C's % on int/long: truncation towards zero
CMod(a, b) == IF a >= 0 THEN a % b ELSE -((-a) % b)

\* matrix[g].M * matrix[g].N
Tiles(g) == graphs[g].nb_fields * graphs[g].max_width

RECURSIVE MaxScratchBytes(_, _)
MaxScratchBytes(gs, n) ==
  IF n = 0 THEN 0
  ELSE LET m == MaxScratchBytes(gs, n - 1)
       IN IF gs[n].scratch_bytes_per_task > m
          THEN gs[n].scratch_bytes_per_task ELSE m

\* ---- SerialApp::SerialApp ----------------------------------------------
\* every malloc of the constructor that asks for at least one byte
AllocSites ==
  {<<"matrix">>}
    \cup {s \in {<<"scratch">>} : MaxScratchBytes(graphs, Len(graphs)) > 0}
    \cup {<<"data", g>> : g \in {h \in 1..Len(graphs) : Tiles(h) > 0}}
    \cup UNION {{<<"buff", g, j>> : j \in 0..(Tiles(g) - 1)} :
                  g \in 1..Len(graphs)}

FailureSets == {F \in SUBSET AllocSites : Cardinality(F) <= MaxAllocFailures}

\* matrix[g].data after line 129: NULL when malloc failed; a request of 0
\* bytes yields NULL or a unique pointer, as the C library chooses
DataNull(F, zero_null, g) ==
  \/ <<"data", g>> \in F
  \/ Tiles(g) <= 0 /\ zero_null

\* lines 127 and 132 write through the pointer malloc returned, unchecked
DerefsNull(F) ==
  \/ <<"matrix">> \in F
  \/ \E g \in 1..Len(graphs) : <<"data", g>> \in F /\ Tiles(g) > 0

\* tiles whose output_buff is NULL after the loop of lines 131-133
BuffNull(F, zero_null) ==
  {<<g, j>> \in (1..Len(graphs)) \X (0..(MaxFields * MaxWidth)) :
     /\ j < Tiles(g)
     /\ \/ <<"buff", g, j>> \in F
        \/ <<"matrix">> \in F
        \/ DataNull(F, zero_null, g)}

\* faulty variant: only the last graph's scratch size is looked at
NeedsScratchLastGraph == graphs[Len(graphs)].scratch_bytes_per_task > 0

\* lines 140-143
NeedsScratch == MaxScratchBytes(graphs, Len(graphs)) > 0

Construct ==
  /\ pc = "ctor"
  /\ \E F \in FailureSets, zero_null \in BOOLEAN, ub \in {"crash", "survive"} :
       LET crash_early == ub = "crash" /\ DerefsNull(F)
           \* prepare_scratch(NULL, n) writes through its argument
           crash_late == ub = "crash" /\ NeedsScratch /\ <<"scratch">> \in F
           scratch_ok == NeedsScratch /\ <<"scratch">> \notin F /\ ~crash_early
       IN /\ failed' = F
          /\ matrix_null' = (<<"matrix">> \in F)
          /\ data_null' = [g \in 1..Len(graphs) |->
                             <<"matrix">> \in F \/ DataNull(F, zero_null, g)]
          /\ buff_null' = BuffNull(F, zero_null)
          /\ scratch_memory' = IF scratch_ok THEN "buf" ELSE "NULL"
          /\ scratch_size' =
               IF scratch_ok THEN MaxScratchBytes(graphs, Len(graphs)) ELSE 0
          /\ prepare_calls' = IF NeedsScratch /\ ~crash_early THEN 1 ELSE 0
          /\ pc' = IF crash_early \/ crash_late THEN "crashed" ELSE "main"
  /\ UNCHANGED <<graphs, ran, content, idx, t, offset, width, x, deps, k,
                 inputs, visited, outcome, call, last, calls, timer, points,
                 freed>>

\* ---- SerialApp::execute_main_loop ---------------------------------------
\* lines 168-172: display(), Timer::time_start(), i = 0, y = 0
TimeStart ==
  /\ pc = "main"
  /\ pc' = "loop"
  /\ idx' = 1
  /\ t' = 0
  /\ timer' = Append(timer, "time_start")
  /\ call' = <<>>
  /\ outcome' = <<>>
  /\ UNCHANGED <<graphs, failed, ran, matrix_null, data_null, buff_null,
                 content, scratch_memory, scratch_size, prepare_calls,
                 offset, width, x, deps, k, inputs, visited, last, calls,
                 points, freed>>

\* line 172 / 174: the inner loop of graph idx is over, i++
NextGraph ==
  /\ pc = "loop"
  /\ idx <= Len(graphs)
  /\ t >= graphs[idx].timesteps
  /\ idx' = idx + 1
  /\ t' = 0
  /\ call' = <<>>
  /\ outcome' = <<>>
  /\ UNCHANGED <<graphs, failed, ran, pc, matrix_null, data_null, buff_null,
                 content, scratch_memory, scratch_size, prepare_calls,
                 offset, width, x, deps, k, inputs, visited, last, calls,
                 timer, points, freed>>

\* line 174: execute_timestep returned (its locals are gone), y++
NextTimestep ==
  /\ pc = "ret"
  /\ pc' = "loop"
  /\ t' = t + 1
  /\ offset' = 0
  /\ width' = 0
  /\ x' = 0
  /\ visited' = <<>>
  /\ call' = <<>>
  /\ outcome' = <<>>
  /\ UNCHANGED <<graphs, failed, ran, matrix_null, data_null, buff_null,
                 content, scratch_memory, scratch_size, prepare_calls, idx,
                 deps, k, inputs, last, calls, timer, points, freed>>

\* lines 179-180: Timer::time_end(), report_timing(elapsed)
TimeEnd ==
  /\ pc = "loop"
  /\ idx > Len(graphs)
  /\ pc' = "done"
  /\ timer' = timer \o <<"time_end", "report_timing">>
  /\ call' = <<>>
  /\ outcome' = <<>>
  /\ UNCHANGED <<graphs, failed, ran, matrix_null, data_null, buff_null,
                 content, scratch_memory, scratch_size, prepare_calls, idx,
                 t, offset, width, x, deps, k, inputs, visited, last, calls,
                 points, freed>>

\* faulty variant: matrix[idx].data is not tested
EntryGuardIgnoresData(g) ==
  \/ g > Len(graphs)
  \/ matrix_null
  \/ graphs[g].nb_fields <= 0

\* ---- SerialApp::execute_timestep ----------------------------------------
\* the guards of lines 185-204 that make execute_timestep return at once
EntryGuardFails(g) ==
  \/ g > Len(graphs)
  \/ matrix_null
  \/ data_null[g]
  \/ graphs[g].nb_fields <= 0

\* lines 183-204, a guard fails: nothing is visited
ExecuteTimestepReturn ==
  /\ pc = "loop"
  /\ idx <= Len(graphs)
  /\ t < graphs[idx].timesteps
  /\ EntryGuardFails(idx)
  /\ \E off \in Offsets(graphs[idx].max_width),
        w \in Widths(graphs[idx].max_width) :
       /\ offset' = off
       /\ width' = w
  /\ visited' = <<>>
  /\ ran' = [ran EXCEPT ![idx] = @ + 1]
  /\ call' = <<>>
  /\ outcome' = <<>>
  /\ pc' = "ret"
  /\ UNCHANGED <<graphs, failed, matrix_null, data_null, buff_null, content,
                 scratch_memory, scratch_size, prepare_calls, idx, t, x,
                 deps, k, inputs, last, calls, timer, points, freed>>

\* lines 183-209, all guards pass: x = offset
ExecuteTimestepEnter ==
  /\ pc = "loop"
  /\ idx <= Len(graphs)
  /\ t < graphs[idx].timesteps
  /\ ~EntryGuardFails(idx)
  /\ \E off \in Offsets(graphs[idx].max_width),
        w \in Widths(graphs[idx].max_width) :
       /\ offset' = off
       /\ width' = w
       /\ x' = off
  /\ visited' = <<>>
  /\ ran' = [ran EXCEPT ![idx] = @ + 1]
  /\ call' = <<>>
  /\ outcome' = <<>>
  /\ pc' = "point"
  /\ UNCHANGED <<graphs, failed, matrix_null, data_null, buff_null, content,
                 scratch_memory, scratch_size, prepare_calls, idx, t, deps,
                 k, inputs, last, calls, timer, points, freed>>

\* faulty variant: the column just past the last one is let through
ColumnOutOfBoundsLax(g, col) == col < 0 \/ col > graphs[g].max_width

\* line 211: the column is outside the matrix
ColumnOutOfBounds(g, col) == col < 0 \/ col >= graphs[g].max_width

\* faulty variant: the row is taken modulo the width, not the number of fields
ArrayIdxModWidth(g, tt, col) ==
  CMod(tt, graphs[g].max_width) * graphs[g].max_width + col

\* faulty variant: the row is the timestep itself, not reduced modulo nb_fields
ArrayIdxNoWrap(g, tt, col) == tt * graphs[g].max_width + col

\* faulty variant: the destination is put in the row of the previous timestep
ArrayIdxPrevRow(g, tt, col) ==
  CMod(tt - 1 + graphs[g].nb_fields, graphs[g].nb_fields)
    * graphs[g].max_width + col

\* lines 223-224: row_idx = t % nb_fields, array_idx = row_idx * N + x
ArrayIdx(g, tt, col) ==
  CMod(tt, graphs[g].nb_fields) * graphs[g].max_width + col

\* lines 226 and 256: a flat index outside [0, M * N)
IndexOutOfBounds(g, j) == j < 0 \/ j >= Tiles(g)

\* faulty variant: the first timestep is not special-cased
ClassifyIgnoresFirstStep(g, tt, col, d) ==
  IF IndexOutOfBounds(g, ArrayIdx(g, tt, col)) THEN "index_skip"
  ELSE IF Len(d) = 0 THEN "task1"
  ELSE "gather"

\* lines 226-239: what the loop body does with a column inside the matrix
Classify(g, tt, col, d) ==
  IF IndexOutOfBounds(g, ArrayIdx(g, tt, col)) THEN "index_skip"
  ELSE IF Len(d) = 0 THEN "task1"
  ELSE IF tt = 0 THEN "task1"
  ELSE "gather"

\* tile_out->output_buff == NULL (tile_out itself is the address of an
\* array element and is never NULL)
BufferNull(g, j) == <<g, j>> \in buff_null

\* faulty variant: every call is issued for the first graph
KernelCallFirstGraph(g, py, px, path, out, ins) ==
  [g |-> 1, t |-> py, x |-> px, path |-> path, out |-> out, inputs |-> ins,
   scratch |-> scratch_memory,
   scratch_len |-> graphs[g].scratch_bytes_per_task]

\* the arguments of one graph.execute_point call
KernelCall(g, py, px, path, out, ins) ==
  [g |-> g, t |-> py, x |-> px, path |-> path, out |-> out, inputs |-> ins,
   scratch |-> scratch_memory,
   scratch_len |-> graphs[g].scratch_bytes_per_task]

\* faulty variant: task1 without its NULL check
task1NoNullCheck(g, tile_out, py, px) ==
  <<KernelCall(g, py, px, "task1", tile_out, <<tile_out>>)>>

\* faulty variant: task1 leaves out the point of column 0
task1SkipsFirstColumn(g, tile_out, py, px) ==
  IF BufferNull(g, tile_out) \/ px = 0 THEN <<>>
  ELSE <<KernelCall(g, py, px, "task1", tile_out, <<tile_out>>)>>

\* lines 37-60: <<the call made>>, or <<>> when task1 returns early
task1(g, tile_out, py, px) ==
  IF BufferNull(g, tile_out) THEN <<>>
  ELSE <<KernelCall(g, py, px, "task1", tile_out, <<tile_out>>)>>

\* faulty variant: task2 returns early when it is given no input
task2SkipsEmpty(g, tile_out, tile_in, py, px) ==
  IF BufferNull(g, tile_out) \/ tile_in = <<>> THEN <<>>
  ELSE IF \E n \in 1..Len(tile_in) : BufferNull(g, tile_in[n]) THEN <<>>
  ELSE <<KernelCall(g, py, px, "task2", tile_out, tile_in)>>

\* faulty variant: a NULL input is left out and the kernel is still called
task2DropsNullInputs(g, tile_out, tile_in, py, px) ==
  IF BufferNull(g, tile_out) THEN <<>>
  ELSE <<KernelCall(g, py, px, "task2", tile_out,
                    SelectSeq(tile_in, LAMBDA i : ~BufferNull(g, i)))>>

\* lines 62-102
task2(g, tile_out, tile_in, py, px) ==
  IF BufferNull(g, tile_out) THEN <<>>
  ELSE IF \E n \in 1..Len(tile_in) : BufferNull(g, tile_in[n]) THEN <<>>
  ELSE <<KernelCall(g, py, px, "task2", tile_out, tile_in)>>

\* lines 53-55 and 87-89: the call hands the kernel the destination tile's
\* buffer as output_ptr
execute_point(c) == [content EXCEPT ![c.g][c.out] = c.t]

\* the step's kernel call, if any, and its effect
Invoke(c) ==
  /\ call' = c
  /\ IF c = <<>>
     THEN UNCHANGED <<content, last, calls>>
     ELSE /\ content' = execute_point(c[1])
          /\ last' = <<c[1].g, c[1].t, c[1].x>>
          /\ calls' = calls + 1

\* what the loop body of lines 210-268 did for column col: the dependencies
\* it was given, the inputs it gathered and the branch it took
PointOutcome(col, d, ins, path) ==
  [x |-> col, deps |-> d, inputs |-> ins, path |-> path]

\* faulty variant: the last column of the range is left out
InRangeOffByOne(col, off, w) == col < off + w - 1

\* line 209: the loop condition
InRange(col, off, w) == col <= off + w - 1

\* faulty variant: the loop variable is not advanced
NextColumnStuck(col) == col

\* line 209: x++, also what the continue statements of lines 214 and 229 reach
NextColumn(col) == col + 1

\* line 209: the loop condition fails
EndColumns ==
  /\ pc = "point"
  /\ ~InRange(x, offset, width)
  /\ pc' = "ret"
  /\ call' = <<>>
  /\ outcome' = <<>>
  /\ UNCHANGED <<graphs, failed, ran, matrix_null, data_null, buff_null,
                 content, scratch_memory, scratch_size, prepare_calls, idx,
                 t, offset, width, x, deps, k, inputs, visited, last, calls,
                 timer, points, freed>>

\* faulty variant: an out-of-bounds column ends the loop (break for continue)
SkipColumnBreaks ==
  /\ pc = "point"
  /\ InRange(x, offset, width)
  /\ ColumnOutOfBounds(idx, x)
  /\ visited' = Append(visited, x)
  /\ pc' = "ret"
  /\ call' = <<>>
  /\ outcome' = <<PointOutcome(x, <<>>, <<>>, "column_skip")>>
  /\ UNCHANGED <<graphs, failed, ran, x, matrix_null, data_null, buff_null,
                 content, scratch_memory, scratch_size, prepare_calls, idx,
                 t, offset, width, deps, k, inputs, last, calls, timer,
                 points, freed>>

\* lines 209-215: x is out of bounds, continue
SkipColumn ==
  /\ pc = "point"
  /\ InRange(x, offset, width)
  /\ ColumnOutOfBounds(idx, x)
  /\ visited' = Append(visited, x)
  /\ x' = NextColumn(x)
  /\ call' = <<>>
  /\ outcome' = <<PointOutcome(x, <<>>, <<>>, "column_skip")>>
  /\ UNCHANGED <<graphs, failed, ran, pc, matrix_null, data_null, buff_null,
                 content, scratch_memory, scratch_size, prepare_calls, idx,
                 t, offset, width, deps, k, inputs, last, calls, timer,
                 points, freed>>

\* lines 218-238: the dependencies are queried and the point takes the
\* single-input path (or the defensive continue of line 229)
PointTask1 ==
  /\ pc = "point"
  /\ InRange(x, offset, width)
  /\ ~ColumnOutOfBounds(idx, x)
  /\ \E d \in DepLists(graphs[idx].max_width) :
       /\ Classify(idx, t, x, d) \in {"index_skip", "task1"}
       /\ outcome' = <<PointOutcome(x, d, <<>>, Classify(idx, t, x, d))>>
       /\ Invoke(IF Classify(idx, t, x, d) = "task1"
                 THEN task1(idx, ArrayIdx(idx, t, x), t, x)
                 ELSE <<>>)
  /\ visited' = Append(visited, x)
  /\ points' = points + 1
  /\ x' = NextColumn(x)
  /\ UNCHANGED <<graphs, failed, ran, pc, matrix_null, data_null, buff_null,
                 scratch_memory, scratch_size, prepare_calls, idx, t, offset,
                 width, deps, k, inputs, timer, freed>>

\* lines 218-242: the dependencies are queried and the point takes the
\* multi-input path: inputs is empty, i = 0
PointGather ==
  /\ pc = "point"
  /\ InRange(x, offset, width)
  /\ ~ColumnOutOfBounds(idx, x)
  /\ \E d \in DepLists(graphs[idx].max_width) :
       /\ Classify(idx, t, x, d) = "gather"
       /\ deps' = d
  /\ visited' = Append(visited, x)
  /\ points' = points + 1
  /\ k' = 1
  /\ inputs' = <<>>
  /\ pc' = "gather"
  /\ call' = <<>>
  /\ outcome' = <<>>
  /\ UNCHANGED <<graphs, failed, ran, matrix_null, data_null, buff_null,
                 content, scratch_memory, scratch_size, prepare_calls, idx,
                 t, offset, width, x, last, calls, timer, freed>>

\* faulty variant: the inputs are taken from the row of timestep t, not t - 1
GatherSameRow(g, tt, ins, dep_x) ==
  IF ColumnOutOfBounds(g, dep_x) THEN ins
  ELSE LET prev_row_idx == CMod(tt, graphs[g].nb_fields)
           dep_array_idx == prev_row_idx * graphs[g].max_width + dep_x
       IN IF IndexOutOfBounds(g, dep_array_idx) THEN ins
          ELSE Append(ins, dep_array_idx)

\* lines 245-262: inputs after the loop body ran for the dependency dep_x
Gather(g, tt, ins, dep_x) ==
  IF ColumnOutOfBounds(g, dep_x) THEN ins
  ELSE LET prev_row_idx == CMod(tt - 1, graphs[g].nb_fields)
           dep_array_idx == prev_row_idx * graphs[g].max_width + dep_x
       IN IF IndexOutOfBounds(g, dep_array_idx) THEN ins
          ELSE Append(ins, dep_array_idx)

\* lines 244-263: one iteration of the gather loop
GatherEdge ==
  /\ pc = "gather"
  /\ k <= Len(deps)
  /\ inputs' = Gather(idx, t, inputs, deps[k])
  /\ k' = k + 1
  /\ call' = <<>>
  /\ outcome' = <<>>
  /\ UNCHANGED <<graphs, failed, ran, pc, matrix_null, data_null, buff_null,
                 content, scratch_memory, scratch_size, prepare_calls, idx,
                 t, offset, width, x, deps, visited, last, calls, timer,
                 points, freed>>

\* line 265: task2(out, inputs, payload); deps and inputs go out of scope, x++
Dispatch ==
  /\ pc = "gather"
  /\ ~(k <= Len(deps))
  /\ Invoke(task2(idx, ArrayIdx(idx, t, x), inputs, t, x))
  /\ outcome' = <<PointOutcome(x, deps, inputs, "task2")>>
  /\ x' = NextColumn(x)
  /\ deps' = <<>>
  /\ k' = 1
  /\ inputs' = <<>>
  /\ pc' = "point"
  /\ UNCHANGED <<graphs, failed, ran, matrix_null, data_null, buff_null,
                 scratch_memory, scratch_size, prepare_calls, idx, t, offset,
                 width, visited, timer, points, freed>>

\* ---- SerialApp::~SerialApp ----------------------------------------------
\* the pointers the destructor works on
Storage ==
  [matrix_null |-> matrix_null, data_null |-> data_null,
   buff_null |-> buff_null, scratch_memory |-> scratch_memory]

Pointers ==
  {<<"matrix">>, <<"scratch">>}
    \cup {<<"data", g>> : g \in 1..Len(graphs)}
    \cup UNION {{<<"buff", g, j>> : j \in 0..(Tiles(g) - 1)} :
                  g \in 1..Len(graphs)}

IsNull(s, p) ==
  CASE p[1] = "matrix" -> s.matrix_null
    [] p[1] = "scratch" -> s.scratch_memory = "NULL"
    [] p[1] = "data" -> s.data_null[p[2]]
    [] OTHER -> <<p[2], p[3]>> \in s.buff_null

\* lines 149 and 150 read matrix[i].M and matrix[i].data[j] through pointers
\* the destructor does not test (graphs is never empty)
ReleaseDerefsNull(s) ==
  \/ s.matrix_null
  \/ \E g \in 1..Len(graphs) : s.data_null[g] /\ Tiles(g) > 0

\* lines 150, 153, 157 and 161: the non-NULL pointers given to free
Frees(s) == {p \in Pointers : ~IsNull(s, p)}

\* lines 151, 154, 158 and 162: every pointer is set to NULL after its free
Released(s) ==
  [matrix_null |-> TRUE,
   data_null |-> [g \in 1..Len(graphs) |-> TRUE],
   buff_null |-> UNION {{<<g, j>> : j \in 0..(Tiles(g) - 1)} :
                          g \in 1..Len(graphs)},
   scratch_memory |-> "NULL"]

\* lines 146-164, run once when main returns (line 300)
Release ==
  /\ pc = "done"
  /\ \E ub \in {"crash", "survive"} :
       IF ub = "crash" /\ ReleaseDerefsNull(Storage)
       THEN /\ pc' = "crashed"
            /\ UNCHANGED <<matrix_null, data_null, buff_null, scratch_memory,
                           scratch_size, freed>>
       ELSE /\ pc' = "exit"
            /\ freed' = freed \cup Frees(Storage)
            /\ matrix_null' = Released(Storage).matrix_null
            /\ data_null' = Released(Storage).data_null
            /\ buff_null' = Released(Storage).buff_null
            /\ scratch_memory' = Released(Storage).scratch_memory
            /\ scratch_size' = 0
  /\ call' = <<>>
  /\ outcome' = <<>>
  /\ UNCHANGED <<graphs, failed, ran, content, prepare_calls, idx, t, offset,
                 width, x, deps, k, inputs, visited, last, calls, points,
                 timer>>

\* ---- the run ------------------------------------------------------------
\* every variable but graphs when the constructor is about to run
Start ==
  /\ pc = "ctor"
  /\ failed = {}
  /\ matrix_null = FALSE
  /\ data_null = [g \in DOMAIN graphs |-> FALSE]
  /\ buff_null = {}
  /\ content =
       [g \in DOMAIN graphs |->
          [j \in 0..(graphs[g].nb_fields * graphs[g].max_width - 1) |-> -1]]
  /\ scratch_memory = "NULL"
  /\ scratch_size = 0
  /\ prepare_calls = 0
  /\ idx = 1
  /\ t = 0
  /\ ran = [g \in DOMAIN graphs |-> 0]
  /\ offset = 0
  /\ width = 0
  /\ x = 0
  /\ deps = <<>>
  /\ k = 1
  /\ inputs = <<>>
  /\ visited = <<>>
  /\ outcome = <<>>
  /\ call = <<>>
  /\ last = <<>>
  /\ calls = 0
  /\ points = 0
  /\ freed = {}
  /\ timer = <<>>

Init == graphs \in GraphLists /\ Start

\* runs of two graphs, the first of one timestep and the second of MaxSteps
PairLists ==
  {<<a, b>> :
     a \in {f \in GraphFields : /\ f.timesteps = 1
                                /\ f.nb_fields >= 1
                                /\ f.scratch_bytes_per_task = 0},
     b \in {f \in GraphFields : f.timesteps = MaxSteps /\ f.nb_fields >= 1}}

PairInit == graphs \in PairLists /\ Start

Next ==
  \/ Construct
  \/ TimeStart
  \/ NextGraph
  \/ NextTimestep
  \/ TimeEnd
  \/ ExecuteTimestepReturn
  \/ ExecuteTimestepEnter
  \/ EndColumns
  \/ SkipColumn
  \/ PointTask1
  \/ PointGather
  \/ GatherEdge
  \/ Dispatch
  \/ Release

Spec == Init /\ [][Next]_vars

\* the single thread runs on while it has a next statement
FairSpec == Spec /\ WF_vars(Next)

\* the runs of PairLists
PairSpec == PairInit /\ [][Next]_vars

\* ==== properties =========================================================
\* <<off, off + 1, ..., off + w - 1>>
RangeSeq(off, w) == [n \in 1..(IF w > 0 THEN w ELSE 0) |-> off + n - 1]

\* the step just taken ended the loop body of a column inside the matrix
PointDone == outcome # <<>> /\ outcome[1].path # "column_skip"

\* the destination tile of the point the last step ended
Dest == (t % graphs[idx].nb_fields) * graphs[idx].max_width + outcome[1].x

\* C1 as stated: for every graph and timestep, when execute_timestep returns
\* it has considered exactly the columns offset .. offset+width-1, each
\* once, and no kernel call is made for a column outside that range.
C1_AsStated ==
  /\ pc = "ret" => visited = RangeSeq(offset, width)
  /\ call # <<>> => call[1].x \in offset..(offset + width - 1)

\* C1 amended: when the entry guards of execute_timestep pass (matrix data
\* not NULL, nb_fields > 0) the columns considered are exactly
\* offset .. offset+width-1 in order, each once; when a guard fails no
\* column is considered; no kernel call is made for a column outside the
\* range.
C1_ColumnsVisited ==
  /\ pc = "ret" =>
       visited = IF matrix_null \/ data_null[idx] \/ graphs[idx].nb_fields <= 0
                 THEN <<>> ELSE RangeSeq(offset, width)
  /\ pc = "point" => visited = RangeSeq(offset, x - offset)
  /\ pc = "gather" => visited = RangeSeq(offset, x - offset + 1)
  /\ call # <<>> =>
       /\ call[1].x \in offset..(offset + width - 1)
       /\ call[1].x = visited[Len(visited)]

C1_Witness ==
  /\ pc = "ret"
  /\ width >= 2
  /\ Len(visited) = width
  /\ \E n \in 1..Len(visited) :
       visited[n] < 0 \/ visited[n] >= graphs[idx].max_width
  /\ last = <<idx, t, visited[1]>>

\* C2: kernel calls of one graph have increasing timesteps and, within a
\* timestep, strictly increasing columns; each graph's timesteps are run
\* 0, 1, ..., timesteps-1 in this order; a point is finished (gathered and
\* dispatched) before the loop moves to another column.
C2_CallOrder ==
  [][/\ call' # <<>> =>
          /\ <<call'[1].g, call'[1].t, call'[1].x>> = <<idx, t, x>>
          /\ (last # <<>> /\ last[1] = idx) =>
               \/ last[2] < t
               \/ last[2] = t /\ last[3] < x
     /\ ran' # ran =>
          /\ t < graphs[idx].timesteps
          /\ t = ran[idx]
          /\ ran' = [ran EXCEPT ![idx] = t + 1]
     /\ t' # t => \/ pc = "ret" /\ t' = t + 1 /\ idx' = idx
                  \/ t = graphs[idx].timesteps /\ t' = 0 /\ idx' = idx + 1
     /\ pc = "gather" =>
          /\ <<idx', t'>> = <<idx, t>>
          /\ \/ pc' = "gather" /\ x' = x /\ outcome' = <<>>
             \/ pc' = "point" /\ x' = x + 1 /\ outcome' # <<>>
                  /\ outcome'[1].x = x
     /\ (pc \in {"point", "gather"} /\ x' # x) =>
          outcome' # <<>> /\ outcome'[1].x = x /\ x' = x + 1
    ]_vars

C2_Witness ==
  /\ call # <<>>
  /\ call[1].t = 1
  /\ call[1].x = 1
  /\ calls = 4

\* C3: a point whose column and destination buffer are valid and whose
\* dependency list is empty, or whose timestep is 0 whatever its
\* dependencies, is dispatched on the single-input path: one kernel call
\* whose only input is the destination tile itself.
C3_SingleInput ==
  (/\ PointDone
   /\ outcome[1].deps = <<>> \/ t = 0
   /\ <<idx, Dest>> \notin buff_null)
  => /\ outcome[1].path = "task1"
     /\ call # <<>>
     /\ call[1].path = "task1"
     /\ <<call[1].g, call[1].t, call[1].x>> = <<idx, t, outcome[1].x>>
     /\ call[1].out = Dest
     /\ call[1].inputs = <<Dest>>

C3_Witness ==
  /\ PointDone
  /\ t = 0
  /\ Len(outcome[1].deps) = 2
  /\ call # <<>>
  /\ call[1].path = "task1"

\* the tiles of row (tt - 1) mod nb_fields at the in-bounds columns of d,
\* in d's order
RECURSIVE InBoundsTiles(_, _, _)
InBoundsTiles(g, tt, d) ==
  IF d = <<>> THEN <<>>
  ELSE LET c == Head(d)
           rest == InBoundsTiles(g, tt, Tail(d))
       IN IF 0 <= c /\ c < graphs[g].max_width
          THEN <<((tt - 1) % graphs[g].nb_fields) * graphs[g].max_width + c>>
                 \o rest
          ELSE rest

\* C4: a valid point with t >= 1 and a non-empty dependency list takes the
\* multi-input path; the inputs gathered, and passed to the kernel, are the
\* tiles of row (t-1) mod nb_fields at the declared columns that lie in
\* [0, max_width), in declared order, duplicates kept.
C4_MultiInput ==
  (/\ PointDone
   /\ outcome[1].deps # <<>>
   /\ t >= 1)
  => /\ outcome[1].path = "task2"
     /\ outcome[1].inputs = InBoundsTiles(idx, t, outcome[1].deps)
     /\ call # <<>> =>
          /\ call[1].path = "task2"
          /\ <<call[1].g, call[1].t, call[1].x>> = <<idx, t, outcome[1].x>>
          /\ call[1].out = Dest
          /\ call[1].inputs = InBoundsTiles(idx, t, outcome[1].deps)
     /\ (\A j \in 0..(Tiles(idx) - 1) : <<idx, j>> \notin buff_null)
          => call # <<>>

C4_Witness ==
  /\ PointDone
  /\ outcome[1].deps = <<1, 0>>
  /\ call # <<>>
  /\ call[1].path = "task2"
  /\ Len(call[1].inputs) = 2
  /\ graphs[idx].nb_fields = 2

\* C5: for t >= 1, a valid point all of whose declared dependencies are out
\* of range still gets exactly one kernel call, on the multi-input path
\* with zero inputs, and the loop goes on with the next column.
C5_ZeroInputs ==
  [][(/\ outcome' # <<>>
      /\ outcome'[1].path # "column_skip"
      /\ t >= 1
      /\ outcome'[1].deps # <<>>
      /\ \A n \in 1..Len(outcome'[1].deps) :
           outcome'[1].deps[n] < 0
             \/ outcome'[1].deps[n] >= graphs[idx].max_width
      /\ <<idx, (t % graphs[idx].nb_fields) * graphs[idx].max_width + x>>
           \notin buff_null)
     => /\ call' # <<>>
        /\ call'[1].path = "task2"
        /\ call'[1].inputs = <<>>
        /\ <<call'[1].t, call'[1].x>> = <<t, x>>
        /\ calls' = calls + 1
        /\ pc' = "point"
        /\ x' = x + 1
    ]_vars

C5_Witness ==
  /\ PointDone
  /\ outcome[1].deps = <<graphs[idx].max_width, -1>>
  /\ call # <<>>
  /\ call[1].path = "task2"
  /\ call[1].inputs = <<>>

\* position of the thread in the run, in the order the code goes through it
Stage ==
  CASE pc = "ctor" -> 0
    [] pc = "main" -> 1
    [] pc = "loop" -> 2
    [] pc \in {"point", "gather"} -> 3
    [] pc = "ret" -> 4
    [] pc = "done" -> 5
    [] OTHER -> 6

Position ==
  <<IF pc \in {"ctor", "main"} THEN 0 ELSE idx,
    IF pc \in {"ctor", "main"} THEN Stage ELSE t,
    Stage,
    IF pc \in {"point", "gather"} THEN x ELSE 0,
    IF pc = "gather" THEN k ELSE 0>>

RECURSIVE LexLess(_, _)
LexLess(a, b) ==
  /\ a # <<>>
  /\ \/ Head(a) < Head(b)
     \/ Head(a) = Head(b) /\ LexLess(Tail(a), Tail(b))

\* no buffer of graph g is NULL
NoNullBuffer(g) == \A j \in 0..(Tiles(g) - 1) : <<g, j>> \notin buff_null

\* C6: whatever offsets, widths and dependency columns the graph returns,
\* once the main loop has started every step moves the run forward and a
\* next step exists until time_end: every timestep of every graph is run;
\* in a timestep whose graph has no NULL buffer every in-bounds column of
\* the range has been dispatched when the timestep ends, whatever was
\* skipped before it; kernel calls happen only between time_start and
\* time_end, and the run ends with exactly one time_start, time_end and
\* report_timing.
C6_RunCompletes ==
  /\ [](pc \in {"main", "loop", "point", "gather", "ret"} => ENABLED Next)
  /\ [](pc = "done" =>
          /\ \A g \in 1..Len(graphs) : ran[g] = graphs[g].timesteps
          /\ timer = <<"time_start", "time_end", "report_timing">>)
  /\ []((/\ pc = "ret"
         /\ ~matrix_null /\ ~data_null[idx] /\ graphs[idx].nb_fields > 0
         /\ NoNullBuffer(idx))
        => \A c \in offset..(offset + width - 1) :
             (0 <= c /\ c < graphs[idx].max_width)
               => content[idx][(t % graphs[idx].nb_fields)
                                 * graphs[idx].max_width + c] = t)
  /\ [][/\ LexLess(Position, Position')
        /\ call' # <<>> => timer' = <<"time_start">>
       ]_vars

C6_Witness ==
  /\ PointDone
  /\ visited = <<-1, 0>>
  /\ outcome[1].deps = <<-1, 0>>
  /\ call # <<>>
  /\ Len(call[1].inputs) = 1

\* C7: prepare_scratch is called at most once; once construction is over
\* it has been called exactly once if and only if some graph has
\* scratch_bytes_per_task > 0; the call happens before time_start and
\* before the first kernel call.
C7_PrepareOnce ==
  /\ [](prepare_calls <= 1)
  /\ [](pc \notin {"ctor", "crashed"} =>
          (prepare_calls = 1 <=>
             \E g \in 1..Len(graphs) : graphs[g].scratch_bytes_per_task > 0))
  /\ [][prepare_calls' # prepare_calls =>
          /\ timer = <<>> /\ timer' = <<>>
          /\ calls = 0 /\ calls' = 0
       ]_vars

C7_Witness ==
  /\ pc = "done"
  /\ Len(graphs) = 2
  /\ graphs[1].scratch_bytes_per_task > 0
  /\ graphs[2].scratch_bytes_per_task = 0
  /\ prepare_calls = 1
  /\ calls >= 2

\* C8: the kernel call of point (t, x) of graph g gets the tile at row
\* t mod nb_fields, column x of g's matrix as its destination, so a tile
\* only ever serves timesteps congruent to its row modulo nb_fields, and
\* after the call of timestep t1 + nb_fields the tile holds that call's
\* write, which replaced the one of an earlier timestep.
C8_RowReuse ==
  /\ [](call # <<>> =>
          /\ call[1].out = (call[1].t % graphs[call[1].g].nb_fields)
                             * graphs[call[1].g].max_width + call[1].x
          /\ content[call[1].g][call[1].out] = call[1].t)
  /\ [](\A g \in 1..Len(graphs) : \A j \in 0..(Tiles(g) - 1) :
          content[g][j] # -1 =>
            /\ content[g][j] % graphs[g].nb_fields = j \div graphs[g].max_width
            /\ content[g][j] \in 0..(graphs[g].timesteps - 1))
  /\ [][\A g \in 1..Len(graphs) : \A j \in 0..(Tiles(g) - 1) :
          content'[g][j] # content[g][j] =>
            /\ call' # <<>>
            /\ <<call'[1].g, call'[1].out>> = <<g, j>>
            /\ content'[g][j] = t
            /\ content[g][j] < t
       ]_vars

C8_Witness ==
  /\ call # <<>>
  /\ call[1].t = graphs[idx].nb_fields
  /\ calls = 2 * graphs[idx].max_width
  /\ Len(graphs) = 1
  /\ \A j \in 0..(Tiles(1) - 1) : content[1][j] = call[1].t

\* C9, for the tile buffers (the claim names the matrices and the scratch
\* buffer too; their NULL is dereferenced, which is undefined behaviour):
\* when the allocation of a tile buffer fails, the main loop is never
\* entered and no kernel call is made.
C9_AbortOnAllocFailure ==
  (\E s \in failed : s[1] = "buff") => timer = <<>> /\ calls = 0

\* C10 as stated: for a point whose destination buffer is NULL no
\* dependency gathering is attempted and no kernel call is made.
C10_AsStated ==
  /\ pc = "gather" =>
       <<idx, (t % graphs[idx].nb_fields) * graphs[idx].max_width + x>>
         \notin buff_null
  /\ (PointDone /\ <<idx, Dest>> \in buff_null) => call = <<>>

\* C10 amended: for a point whose destination buffer is NULL no kernel call
\* is made, no tile changes, and the loop goes on with the next column (on
\* the multi-input path the NULL check comes after the gather loop).
C10_NullDestSkipped ==
  [][(/\ outcome' # <<>>
      /\ outcome'[1].path # "column_skip"
      /\ <<idx, (t % graphs[idx].nb_fields) * graphs[idx].max_width + x>>
           \in buff_null)
     => /\ call' = <<>>
        /\ content' = content
        /\ calls' = calls
        /\ <<idx', t'>> = <<idx, t>>
        /\ pc' = "point"
        /\ x' = x + 1
    ]_vars

C10_Witness ==
  /\ PointDone
  /\ outcome[1].path = "task2"
  /\ <<idx, Dest>> \in buff_null
  /\ Len(outcome[1].inputs) = 2
  /\ call = <<>>

\* C11: once the destructor has run, every pointer has been freed and set
\* to NULL, and running the destructor again is safe: it dereferences no
\* NULL pointer, frees nothing that was freed before and leaves the
\* pointers as they are.
C11_ReleaseIdempotent ==
  pc = "exit" =>
    /\ Frees(Storage) = {}
    /\ ~ReleaseDerefsNull(Storage)
    /\ Frees(Storage) \cap freed = {}
    /\ Released(Storage) = Storage

\* C12: a point whose column is outside [0, max_width) changes nothing: the
\* loop body ends at the check of line 211, before the dependencies are
\* queried; no kernel call is made and every tile of every matrix keeps its
\* content; the loop goes on with the next column. No kernel call and no
\* dependency query is ever made for such a column.
C12_ColumnSkipped ==
  /\ [](call # <<>> => 0 <= call[1].x /\ call[1].x < graphs[idx].max_width)
  /\ [](PointDone =>
          0 <= outcome[1].x /\ outcome[1].x < graphs[idx].max_width)
  /\ [][(/\ pc = "point"
         /\ x <= offset + width - 1
         /\ x < 0 \/ x >= graphs[idx].max_width)
        => /\ call' = <<>>
           /\ calls' = calls
           /\ content' = content
           /\ points' = points
           /\ deps' = deps
           /\ outcome' = <<[x |-> x, deps |-> <<>>, inputs |-> <<>>,
                            path |-> "column_skip"]>>
           /\ pc' = "point"
           /\ x' = x + 1
       ]_vars

C12_Witness ==
  /\ outcome # <<>>
  /\ outcome[1].path = "column_skip"
  /\ outcome[1].x = graphs[idx].max_width
  /\ call = <<>>
  /\ last = <<idx, t, outcome[1].x - 1>>
  /\ t = 1

\* C13: every loop body ends in exactly one of two ways, Done (one kernel
\* call for its point) or Skip (none), and the loop then moves to the next
\* column, so no point is retried; it ends Done exactly when its column is
\* in [0, max_width) and the buffers of its destination and of its gathered
\* inputs are not NULL (nb_fields > 0 holds whenever a body runs); kernel
\* calls are made nowhere else and never twice for one (graph, t, x); hence
\* the number of kernel calls never exceeds the number of points with a
\* column in [0, max_width), and equals it when no buffer is NULL.
C13_ExactlyOnce ==
  /\ [][/\ outcome' # <<>> =>
             /\ pc' = "point" /\ x' = x + 1 /\ <<idx', t'>> = <<idx, t>>
             /\ outcome'[1].x = x
             /\ graphs[idx].nb_fields > 0
             /\ \/ /\ call' # <<>>
                   /\ calls' = calls + 1
                   /\ <<call'[1].g, call'[1].t, call'[1].x>> = <<idx, t, x>>
                \/ /\ call' = <<>>
                   /\ calls' = calls
             /\ call' # <<>> <=>
                  /\ 0 <= x /\ x < graphs[idx].max_width
                  /\ <<idx, (t % graphs[idx].nb_fields) * graphs[idx].max_width
                              + x>> \notin buff_null
                  /\ \A n \in 1..Len(outcome'[1].inputs) :
                       <<idx, outcome'[1].inputs[n]>> \notin buff_null
        /\ outcome' = <<>> => call' = <<>> /\ calls' = calls
        /\ (call' # <<>> /\ last # <<>>) =>
             \/ last[1] < idx
             \/ last[1] = idx /\ last[2] < t
             \/ last[1] = idx /\ last[2] = t /\ last[3] < x
       ]_vars
  /\ [](calls <= points)
  /\ []((pc \in {"loop", "point", "ret", "done"} /\ buff_null = {})
          => calls = points)

C13_Witness ==
  /\ pc = "done"
  /\ buff_null = {}
  /\ Len(graphs) = 1
  /\ graphs[1].timesteps = 2
  /\ points = 4
  /\ calls = 4

\* C14: the two defensive flat-index checks never fire. For every column
\* that passed the [0, max_width) check the destination index lies in
\* [0, nb_fields * max_width); the multi-input path is reached only with
\* t >= 1, its source row (t-1) mod nb_fields lies in [0, nb_fields), every
\* dependency column in [0, max_width) yields an input (none is dropped by
\* the second check), and every tile index gathered or passed to the kernel
\* lies in [0, nb_fields * max_width).
C14_IndexInBounds ==
  /\ outcome # <<>> => outcome[1].path # "index_skip"
  /\ PointDone =>
       /\ graphs[idx].nb_fields > 0 /\ t >= 0
       /\ Dest \in 0..(Tiles(idx) - 1)
  /\ pc = "gather" =>
       /\ t >= 1
       /\ graphs[idx].nb_fields > 0
       /\ CMod(t - 1, graphs[idx].nb_fields) \in 0..(graphs[idx].nb_fields - 1)
       /\ CMod(t, graphs[idx].nb_fields) * graphs[idx].max_width + x
            \in 0..(Tiles(idx) - 1)
       /\ inputs = InBoundsTiles(idx, t, SubSeq(deps, 1, k - 1))
       /\ \A n \in 1..Len(inputs) : inputs[n] \in 0..(Tiles(idx) - 1)
  /\ call # <<>> =>
       /\ call[1].out \in 0..(Tiles(call[1].g) - 1)
       /\ \A n \in 1..Len(call[1].inputs) :
            call[1].inputs[n] \in 0..(Tiles(call[1].g) - 1)

C14_Witness ==
  /\ pc = "gather"
  /\ graphs[idx].nb_fields = 1
  /\ graphs[idx].max_width = 2
  /\ t = 1
  /\ x = 1
  /\ k = 3
  /\ inputs = <<1, 0>>

\* C15: every kernel call made while graph idx is processed is a call of
\* graph idx whose destination and inputs are tiles of idx's own matrix
\* (indices inside its nb_fields * max_width tiles), and a step changes no
\* tile of any other graph's matrix.
C15_GraphsDisjoint ==
  /\ [](call # <<>> =>
          /\ call[1].g = idx
          /\ call[1].out \in DOMAIN content[idx]
          /\ \A n \in 1..Len(call[1].inputs) :
               call[1].inputs[n] \in DOMAIN content[idx])
  /\ [][\A g \in 1..Len(graphs) :
          content'[g] # content[g] =>
            /\ g = idx
            /\ pc \in {"point", "gather"}
            /\ call' # <<>>
            /\ call'[1].g = g
       ]_vars

C15_Witness ==
  /\ idx = 2
  /\ call # <<>>
  /\ call[1].path = "task2"
  /\ Len(call[1].inputs) = 2
  /\ \A j \in DOMAIN content[1] : content[1][j] = 0
  /\ graphs[1].max_width = 2
  /\ graphs[1].nb_fields = 1

\* C16: when the graph has nb_fields <= 0 or its matrix data is NULL,
\* execute_timestep returns at once for every timestep of that graph: no
\* column is visited, no kernel call is made and no tile is modified; the
\* main loop goes on with the next timestep and the next graph, and the run
\* ends with every timestep of every graph run and the timing reported. No
\* kernel call is ever made for such a graph.
C16_GraphSkipped ==
  /\ [](call # <<>> =>
          /\ graphs[call[1].g].nb_fields > 0
          /\ ~matrix_null
          /\ ~data_null[call[1].g])
  /\ [][(/\ pc = "loop"
         /\ idx <= Len(graphs)
         /\ t < graphs[idx].timesteps
         /\ \/ graphs[idx].nb_fields <= 0
            \/ matrix_null
            \/ data_null[idx])
        => /\ pc' = "ret"
           /\ visited' = <<>>
           /\ call' = <<>>
           /\ calls' = calls
           /\ content' = content
           /\ ran' = [ran EXCEPT ![idx] = t + 1]
       ]_vars
  /\ [][pc = "ret" => pc' = "loop" /\ idx' = idx /\ t' = t + 1]_vars
  /\ [](pc \in {"loop", "ret"} => ENABLED Next)
  /\ [](pc = "done" =>
          /\ timer = <<"time_start", "time_end", "report_timing">>
          /\ \A g \in 1..Len(graphs) :
               /\ ran[g] = graphs[g].timesteps
               /\ (graphs[g].nb_fields <= 0 \/ data_null[g]) =>
                    \A j \in DOMAIN content[g] : content[g][j] = -1)

C16_Witness ==
  /\ pc = "done"
  /\ Len(graphs) = 2
  /\ graphs[1].nb_fields = 0
  /\ ran[1] = 1
  /\ graphs[2].nb_fields = 2
  /\ calls = 2

\* C17: on the multi-input path with nb_fields >= 2 the inputs lie in row
\* (t-1) mod nb_fields, which is not the destination row t mod nb_fields;
\* when the call is made no input tile has been written during timestep t,
\* the call leaves the input tiles as they are, and an input tile that was
\* ever written holds the write of a timestep congruent to t-1, the latest
\* being t-1. With nb_fields = 1 source and destination row coincide: an
\* input tile written during timestep t is at a column smaller than x, and
\* when no buffer is NULL every input at a column of the active range
\* smaller than x has been written during timestep t.
C17_InputsNotOverwritten ==
  [][(call' # <<>> /\ call'[1].path = "task2") =>
       LET nb == graphs[idx].nb_fields
           N == graphs[idx].max_width
           ins == call'[1].inputs
       IN /\ t >= 1
          /\ \A n \in 1..Len(ins) :
               /\ ins[n] \div N = (t - 1) % nb
               /\ nb >= 2 =>
                    /\ ins[n] \div N # call'[1].out \div N
                    /\ content[idx][ins[n]] < t
                    /\ content'[idx][ins[n]] = content[idx][ins[n]]
                    /\ \/ content[idx][ins[n]] = -1
                       \/ /\ content[idx][ins[n]] <= t - 1
                          /\ content[idx][ins[n]] % nb = (t - 1) % nb
               /\ nb = 1 =>
                    /\ content[idx][ins[n]] = t => ins[n] < x
                    /\ (/\ NoNullBuffer(idx)
                        /\ offset <= ins[n]
                        /\ ins[n] < x) => content[idx][ins[n]] = t
    ]_vars

C17_Witness ==
  /\ call # <<>>
  /\ call[1].path = "task2"
  /\ graphs[idx].nb_fields = 2
  /\ call[1].x = 1
  /\ call[1].inputs = <<0, 1>>
  /\ content[idx][0] = 0
  /\ content[idx][1] = 0
  /\ content[idx][2] = 1

\* with nb_fields = 1, a call whose input was overwritten during its own
\* timestep by a smaller column
C17_OverwrittenInput ==
  /\ call # <<>>
  /\ call[1].path = "task2"
  /\ graphs[idx].nb_fields = 1
  /\ call[1].x = 1
  /\ call[1].inputs = <<0, 1>>
  /\ content[idx][0] = call[1].t

\* C18: every kernel call gets the one global scratch pointer, which is
\* allocated once, with max(scratch_bytes_per_task) over all graphs bytes,
\* and is not reallocated or reset between construction and the end of the
\* main loop; the scratch length of a call is its graph's own
\* scratch_bytes_per_task and never exceeds the allocated size; when no
\* graph declares scratch the pointer is NULL and the length 0.
C18_SharedScratch ==
  /\ [](call # <<>> =>
          /\ call[1].scratch = scratch_memory
          /\ call[1].scratch_len = graphs[call[1].g].scratch_bytes_per_task
          /\ call[1].scratch_len <= scratch_size
          /\ (\A g \in 1..Len(graphs) : graphs[g].scratch_bytes_per_task = 0)
               => call[1].scratch = "NULL" /\ call[1].scratch_len = 0)
  /\ [](pc \in {"main", "loop", "point", "gather", "ret", "done"} =>
          /\ scratch_size = MaxScratchBytes(graphs, Len(graphs))
          /\ scratch_memory = IF scratch_size > 0 THEN "buf" ELSE "NULL")
  /\ [][pc \notin {"ctor", "done"} =>
          /\ scratch_memory' = scratch_memory
          /\ scratch_size' = scratch_size
          /\ prepare_calls' = prepare_calls
       ]_vars

\* C19: on the multi-input path, when the buffer of any gathered input tile
\* is NULL, task2 returns before the kernel call: the point gets no kernel
\* call at all (not a call with the remaining inputs), no tile changes, in
\* particular not the destination, and the loop goes on with the next
\* column.
C19_NullInputSkipsPoint ==
  /\ []((/\ PointDone
         /\ outcome[1].path = "task2"
         /\ \E n \in 1..Len(outcome[1].inputs) :
              <<idx, outcome[1].inputs[n]>> \in buff_null)
        => call = <<>>)
  /\ [][(/\ pc = "gather"
         /\ k > Len(deps)
         /\ \E n \in 1..Len(inputs) : <<idx, inputs[n]>> \in buff_null)
        => /\ call' = <<>>
           /\ calls' = calls
           /\ content' = content
           /\ last' = last
           /\ outcome' = <<[x |-> x, deps |-> deps, inputs |-> inputs,
                            path |-> "task2"]>>
           /\ pc' = "point"
           /\ x' = x + 1
           /\ <<idx', t'>> = <<idx, t>>
       ]_vars

C19_Witness ==
  /\ PointDone
  /\ outcome[1].path = "task2"
  /\ Len(outcome[1].inputs) = 2
  /\ <<idx, Dest>> \notin buff_null
  /\ <<idx, outcome[1].inputs[1]>> \notin buff_null
  /\ <<idx, outcome[1].inputs[2]>> \in buff_null
  /\ call = <<>>
  /\ content[idx][Dest] = -1

====
